---- MODULE Spec2Model ----
(***************************************************************************)
(* Model of configure_scanner.py: the start-up script that configures a    *)
(* Nessus scanner from environment variables.  The script is one           *)
(* sequential process; pc is its position.  The environment (the           *)
(* global.db file written by nessusd, the adduser child process, the exit  *)
(* status and output of every external command) is nondeterministic.       *)
(***************************************************************************)
EXTENDS Integers, Sequences, FiniteSets, TLC

\* Largest GLOBAL_DB_TIMEOUT (seconds) explored.
MaxTimeout == 2

\* os.getenv(name, None) when the variable is not in the environment.
None == "<None>"

\* os.getenv("RETRY_ON_FAIL", False) when the variable is not in the environment.
FalseDefault == "<False>"

\* Python truth value of a configuration value: None, False and the empty
\* string are false, every other string is true.
Truthy(v) == v \notin {None, FalseDefault, ""}

NAME == "scanner"
MANAGER_HOST == "cloud.tenable.com"
MANAGER_PORT == "443"
DISABLE_CORE_UPDATES == "no"
RETRY_ON_FAIL_SLEEP == 30

VARIABLES
    USERNAME, PASSWORD, ACTIVATION_CODE, LINKING_KEY, RETRY_ON_FAIL,
    GLOBAL_DB_TIMEOUT, AUTO_UPDATE, PROXY,
    pc,           \* position of the script
    global_db,    \* /opt/nessus/var/nessus/global.db: "absent", "empty", "nonempty"
    i,            \* loop index of wait_for_global_db
    checks,       \* evaluations of the readiness condition
    slept,        \* seconds slept by wait_for_global_db
    gdb_created,  \* result of wait_for_global_db: "unset", "True", "False"
    child,        \* the adduser process: "none", "running", "exited"
    step,         \* number of the child.expect call the dialogue is at (1..7)
    matched,      \* patterns matched by child.expect, in order
    sent,         \* lines sent with child.sendline, in order
    out,          \* what the last child.expect call read from the child
    user_added,   \* result of add_user: "unset", "True", "False", "raised"
    cmds,         \* external commands issued (subprocess.call / check_output), in order
    linked,       \* result of the last managed_link: "unset", "True", "False"
    sleeps,       \* time.sleep(RETRY_ON_FAIL_SLEEP) calls made by configure_managed_scanner
    configured,   \* result of configure_managed_scanner: "unset", "True", "False", "raised"
    outcome,      \* what the last `nessuscli managed link` did, "none" before the first
    log,          \* messages written by custom_print, in order
    twinLog,      \* the log of the same run started with another PASSWORD value
    exitCode      \* process exit status, -1 while the script runs

cfg == <<USERNAME, PASSWORD, ACTIVATION_CODE, LINKING_KEY, RETRY_ON_FAIL,
         GLOBAL_DB_TIMEOUT, AUTO_UPDATE, PROXY>>

waitVars == <<i, checks, slept, gdb_created>>

userVars == <<child, step, matched, sent, out, user_added>>

linkVars == <<linked, sleeps, configured, outcome>>

logVars == <<log, twinLog>>

vars == <<cfg, pc, global_db, waitVars, userVars, cmds, linkVars, logVars, exitCode>>

\* custom_print(message) on both logs; a message is the text of its format
\* string followed by the values formatted into it.
Say(messages) ==
    /\ log' = log \o messages
    /\ twinLog' = twinLog \o messages

\* The first statement of __main__.
Waiting == <<"Waiting for Nessus to create global.db.">>

Init ==
    /\ USERNAME \in {None, "admin"}
    /\ PASSWORD \in {None, "secret"}
    /\ ACTIVATION_CODE \in {None, "", "AAAA-BBBB"}
    /\ LINKING_KEY \in {None, "", "key"}
    /\ RETRY_ON_FAIL \in {FalseDefault, "", "true"}
    /\ GLOBAL_DB_TIMEOUT \in 0..MaxTimeout
    /\ AUTO_UPDATE \in {"all", "plugins", "no", "none"}
    /\ PROXY \in {None, "proxy.local"}
    /\ pc = "wait_for_global_db"
    /\ global_db \in {"absent", "empty", "nonempty"}
    /\ i = 0
    /\ checks = 0
    /\ slept = 0
    /\ gdb_created = "unset"
    /\ child = "none"
    /\ step = 0
    /\ matched = <<>>
    /\ sent = <<>>
    /\ out = "<nothing read>"
    /\ user_added = "unset"
    /\ cmds = <<>>
    /\ linked = "unset"
    /\ sleeps = 0
    /\ configured = "unset"
    /\ outcome = "none"
    /\ log = <<Waiting>>
    /\ twinLog = <<Waiting>>
    /\ exitCode = -1

\* sys.exit(code), and the interpreter's exit with status 1 when an
\* exception reaches the top level.
Exit(code) ==
    /\ pc' = "exited"
    /\ exitCode' = code

----------------------------------------------------------------------------
\* wait_for_global_db

\* nessusd creates global.db and later fills it.
GlobalDbWritten ==
    /\ global_db \in {"absent", "empty"}
    /\ global_db' = IF global_db = "absent" THEN "empty" ELSE "nonempty"
    /\ UNCHANGED <<cfg, pc, waitVars, userVars, cmds, linkVars, logVars, exitCode>>

\* Variant that tests os.path.exists only.
GlobalDbReady_ExistsOnly(db) == db # "absent"

\* os.path.exists(global.db) and os.path.getsize(global.db) > 0
GlobalDbReady(db) == db = "nonempty"

\* One iteration of `for i in range(0, timeout)`: the check, then either
\* return True (main goes on to add_user) or time.sleep(1).
WaitIteration ==
    /\ pc = "wait_for_global_db"
    /\ i < GLOBAL_DB_TIMEOUT
    /\ checks' = checks + 1
    /\ IF GlobalDbReady(global_db)
         THEN /\ gdb_created' = "True"
              /\ pc' = "add_user"
              /\ Say(<< <<"Starting to configure Nessus.">> >>)
              /\ UNCHANGED <<i, slept>>
         ELSE /\ i' = i + 1
              /\ slept' = slept + 1
              /\ UNCHANGED <<gdb_created, pc, logVars>>
    /\ UNCHANGED <<cfg, global_db, userVars, cmds, linkVars, exitCode>>

\* The range is exhausted: return False, and main calls sys.exit(3).
WaitTimedOut ==
    /\ pc = "wait_for_global_db"
    /\ ~(i < GLOBAL_DB_TIMEOUT)
    /\ gdb_created' = "False"
    /\ Say(<< <<"Nessus does not seem to have created global.db after %d seconds. Exiting.",
                ToString(GLOBAL_DB_TIMEOUT)>> >>)
    /\ Exit(3)
    /\ UNCHANGED <<cfg, global_db, i, checks, slept, userVars, cmds, linkVars>>

----------------------------------------------------------------------------
\* add_user

\* Variant without the "Skipping user creation" branch.
CredentialCheck_NoSkip(ac, lk, u, p) ==
    IF (Truthy(ac) \/ Truthy(lk)) /\ u = None /\ p = None THEN "False"
    ELSE IF (Truthy(ac) \/ Truthy(lk)) /\ u # None /\ p = None THEN "False"
    ELSE "spawn"

\* The three guards at the head of add_user, in order: "False" and "True"
\* are the value returned, "spawn" means that none of them returned.
CredentialCheck(ac, lk, u, p) ==
    IF (Truthy(ac) \/ Truthy(lk)) /\ u = None /\ p = None THEN "False"
    ELSE IF (Truthy(ac) \/ Truthy(lk)) /\ u # None /\ p = None THEN "False"
    ELSE IF u = None \/ p = None THEN "True"
    ELSE "spawn"

\* The message of the guard of add_user that returned.
CredentialMessage(ac, lk, u, p) ==
    IF (Truthy(ac) \/ Truthy(lk)) /\ u = None /\ p = None
      THEN <<"Activation code or linking key provided but no username and password provided; exiting.">>
    ELSE IF (Truthy(ac) \/ Truthy(lk)) /\ u # None /\ p = None
      THEN <<"Activation code or linking key provided and username was provided, but not a password; exiting.">>
    ELSE <<"Username and password not provided. Skipping user creation.">>

\* Patterns of the child.expect calls.
LoginPrompt == "Login:"
LicenseLimit == "Your license does not allow you to create more than one user"
PasswordPrompt == "Login password:"
AlreadyExists == "already exists"
PasswordAgainPrompt == "Login password .*"
AdminPrompt == "Do you want this user to be .*"
RulesPrompt == "the user can have an empty rules set"
ConfirmPrompt == "Is that ok?"
UserAdded == "User added"

\* The pattern list of the n-th child.expect call of add_user.
Expected(n) ==
    CASE n = 1 -> <<LoginPrompt, LicenseLimit>>
      [] n = 2 -> <<PasswordPrompt, AlreadyExists>>
      [] n = 3 -> <<PasswordAgainPrompt>>
      [] n = 4 -> <<AdminPrompt>>
      [] n = 5 -> <<RulesPrompt>>
      [] n = 6 -> <<ConfirmPrompt>>
      [] n = 7 -> <<UserAdded>>
      [] OTHER -> <<>>

\* The argument of the child.sendline call that follows the n-th expect.
Response(n) ==
    CASE n = 1 -> USERNAME
      [] n = 2 -> PASSWORD
      [] n = 3 -> PASSWORD
      [] n = 4 -> "y"
      [] n = 5 -> ""
      [] n = 6 -> "y\\n"
      [] OTHER -> "<no response>"

\* pexpect.EOF: the child closed its terminal.  pexpect.TIMEOUT: the child
\* wrote nothing that matches within the timeout.
EOF == "<EOF>"
Silence == ""

\* What the child can have written when an expect call looks at its output.
ChildOutputs ==
    { "Login: ",
      "Your license does not allow you to create more than one user.",
      "Login password: ",
      "Login password (again): ",
      "User already exists",
      "Do you want this user to be a Nessus 'system administrator' user",
      "(the user can have an empty rules set)",
      "Is that ok? (y/n) [n]: ",
      "User added",
      "nessuscli: unknown error",
      Silence, EOF }

\* The patterns of add_user that, as regular expressions, occur in a
\* child output.  "Login password .*" needs a blank after "password", so it
\* does not occur in "Login password: ".
PatternsIn(o) ==
    CASE o = "Login: " -> {LoginPrompt}
      [] o = "Your license does not allow you to create more than one user." -> {LicenseLimit}
      [] o = "Login password: " -> {PasswordPrompt}
      [] o = "Login password (again): " -> {PasswordAgainPrompt}
      [] o = "User already exists" -> {AlreadyExists}
      [] o = "Do you want this user to be a Nessus 'system administrator' user" -> {AdminPrompt}
      [] o = "(the user can have an empty rules set)" -> {RulesPrompt}
      [] o = "Is that ok? (y/n) [n]: " -> {ConfirmPrompt}
      [] o = "User added" -> {UserAdded}
      [] OTHER -> {}

\* child.expect(patterns): the 1-based position of the first pattern that
\* occurs in the output, 0 when pexpect raises TIMEOUT or EOF instead.
ExpectIndex(patterns, o) ==
    IF \E k \in DOMAIN patterns : patterns[k] \in PatternsIn(o)
      THEN CHOOSE k \in DOMAIN patterns :
               /\ patterns[k] \in PatternsIn(o)
               /\ \A j \in DOMAIN patterns : patterns[j] \in PatternsIn(o) => k <= j
      ELSE 0

\* Variant that carries on with the next sendline when nothing matched.
AfterExpect_IgnoreMismatch(n, a) ==
    CASE a = 0 /\ n < 7 -> "sendline"
      [] a = 0 -> "raise"
      [] n = 1 /\ a = 2 -> "return"
      [] n = 2 /\ a = 2 -> "kill_return"
      [] n = 7 -> "return"
      [] OTHER -> "sendline"

\* Variant that answers the license message like the login prompt.
AfterExpect_LicenseSends(n, a) ==
    CASE a = 0 -> "raise"
      [] n = 2 /\ a = 2 -> "kill_return"
      [] n = 7 -> "return"
      [] OTHER -> "sendline"

\* Variant that returns once the confirmation question was matched.
AfterExpect_ReturnEarly(n, a) ==
    CASE a = 0 -> "raise"
      [] n = 1 /\ a = 2 -> "return"
      [] n = 2 /\ a = 2 -> "kill_return"
      [] n >= 6 -> "return"
      [] OTHER -> "sendline"

\* What add_user does after its n-th expect call gave index a (1-based;
\* 0: the call raised).
AfterExpect(n, a) ==
    CASE a = 0 -> "raise"
      [] n = 1 /\ a = 2 -> "return"
      [] n = 2 /\ a = 2 -> "kill_return"
      [] n = 7 -> "return"
      [] OTHER -> "sendline"

\* The password of the twin run: another value, set exactly when p is set.
TwinPassword(p) == IF p = None THEN None ELSE "hunter2"

\* What add_user prints right after its n-th expect call gave index a, for
\* username u and password p.  A raised TIMEOUT or EOF prints nothing on
\* standard output.
ExpectLog(n, a, u, p) ==
    CASE n = 1 /\ a = 2 ->
           << <<"Note: User {0} failed to create because of licensing constraints. There is already a user created, continuing..", u>> >>
      [] n = 2 /\ a = 1 -> << <<"Setting Password.">> >>
      [] n = 2 /\ a = 2 -> << <<"User {0} exists on the scanner. Skipping.", u>> >>
      [] n = 7 /\ a = 1 -> << <<"Successfully added user: {0}/{1}", u, p>> >>
      [] OTHER -> <<>>

\* What add_user prints between the sendline that follows its n-th expect
\* call and the next expect call.
SendlineLog(n) ==
    CASE n = 2 -> << <<"Confirming Password..">> >>
      [] n = 3 -> << <<"Adding administrator privileges.">> >>
      [] n = 4 -> << <<"No Rules needed.">> >>
      [] n = 5 -> << <<"Confirming user addition.">> >>
      [] OTHER -> <<>>

\* child.kill(sig): signal 0 is delivered to nobody, it only tests that
\* the process exists; any other signal is taken to end the child.
Kill(c, sig) == IF sig = 0 THEN c ELSE IF c = "running" THEN "exited" ELSE c

\* custom_print, the three guards, and pexpect.spawn(nessuscli adduser).
AddUser ==
    /\ pc = "add_user"
    /\ LET r == CredentialCheck(ACTIVATION_CODE, LINKING_KEY, USERNAME, PASSWORD)
             m == CredentialMessage(ACTIVATION_CODE, LINKING_KEY, USERNAME, PASSWORD)
         IN
         CASE r = "False" ->
                /\ user_added' = "False"
                /\ Say(<< <<"Adding user to scanner.">>, m,
                          <<"Failed to add user to scanner.">> >>)
                /\ Exit(3)
                /\ UNCHANGED <<child, step>>
           [] r = "True" ->
                /\ user_added' = "True"
                /\ Say(<< <<"Adding user to scanner.">>, m >>)
                /\ pc' = "cli_configure"
                /\ UNCHANGED <<child, step, exitCode>>
           [] OTHER ->
                /\ child' = "running"
                /\ step' = 1
                /\ Say(<< <<"Adding user to scanner.">> >>)
                /\ pc' = "expect"
                /\ UNCHANGED <<user_added, exitCode>>
    /\ UNCHANGED <<cfg, global_db, waitVars, matched, sent, out, cmds, linkVars>>

\* One child.expect call and the branch taken on its result.
Expect ==
    /\ pc = "expect"
    /\ \E o \in ChildOutputs :
         LET a == ExpectIndex(Expected(step), o)
             next == AfterExpect(step, a)
         IN  /\ out' = o
             /\ log' = log \o ExpectLog(step, a, USERNAME, PASSWORD)
             /\ twinLog' = twinLog \o ExpectLog(step, a, USERNAME, TwinPassword(PASSWORD))
             /\ matched' = IF a = 0 THEN matched ELSE Append(matched, Expected(step)[a])
             /\ CASE next = "raise" ->
                        /\ user_added' = "raised"
                        /\ child' = IF o = EOF THEN "exited" ELSE child
                        /\ Exit(1)
                   [] next = "return" ->
                        /\ user_added' = "True"
                        /\ pc' = "cli_configure"
                        /\ UNCHANGED <<child, exitCode>>
                   [] next = "kill_return" ->
                        /\ child' = Kill(child, 0)
                        /\ user_added' = "True"
                        /\ pc' = "cli_configure"
                        /\ UNCHANGED exitCode
                   [] OTHER ->
                        /\ pc' = "sendline"
                        /\ UNCHANGED <<child, user_added, exitCode>>
    /\ UNCHANGED <<cfg, global_db, waitVars, step, sent, cmds, linkVars>>

\* The child.sendline call that answers the prompt just matched.
Sendline ==
    /\ pc = "sendline"
    /\ sent' = Append(sent, Response(step))
    /\ step' = step + 1
    /\ out' = "<nothing read>"
    /\ Say(SendlineLog(step))
    /\ pc' = "expect"
    /\ UNCHANGED <<cfg, global_db, waitVars, child, matched, user_added,
                   cmds, linkVars, exitCode>>

\* The adduser process ends by itself after add_user has returned.
ChildExits ==
    /\ child = "running"
    /\ user_added = "True"
    /\ child' = "exited"
    /\ UNCHANGED <<cfg, pc, global_db, waitVars, step, matched, sent, out,
                   user_added, cmds, linkVars, logVars, exitCode>>

----------------------------------------------------------------------------
\* cli_configure

\* The command line built by nessus_config(setting, value, secure).
FixSet(setting, value, secure) ==
    IF secure THEN <<"nessuscli", "fix", "--set", "--secure", setting, value>>
              ELSE <<"nessuscli", "fix", "--set", setting, value>>

Supervisorctl(verb) == <<"supervisorctl", verb, "nessusd">>

\* The nessus_config calls of cli_configure, in order.
SettingCommands(auto_update, linking_key) ==
    <<FixSet("ms_name", NAME, TRUE)>>
    \o (IF auto_update = "all" THEN <<FixSet("auto_update", "True", FALSE)>> ELSE <<>>)
    \o (IF auto_update = "plugins"
          THEN <<FixSet("auto_update_ui", "no", FALSE), FixSet("auto_update", "True", FALSE)>>
          ELSE <<>>)
    \o (IF auto_update = "no" THEN <<FixSet("auto_update", "False", FALSE)>> ELSE <<>>)
    \o (IF Truthy(linking_key) THEN <<FixSet("disable_core_updates", DISABLE_CORE_UPDATES, FALSE)>> ELSE <<>>)

\* Exit statuses an external command can return.
Statuses == {0, 1}

\* Position of the first failed command, or one past the last command.
FirstFailure(status) ==
    IF \E k \in DOMAIN status : status[k] # 0
      THEN CHOOSE k \in DOMAIN status :
               status[k] # 0 /\ \A j \in DOMAIN status : status[j] # 0 => k <= j
      ELSE Len(status) + 1

\* Variant that gives up at the first setting command that fails.
CliConfigureRun_StopAtFailure(planned, status) ==
    IF FirstFailure(status) > Len(status)
      THEN planned \o <<Supervisorctl("restart")>>
      ELSE SubSeq(planned, 1, FirstFailure(status))

\* Variant that restarts nessusd before it applies the settings.
CliConfigureRun_RestartFirst(planned, status) ==
    <<Supervisorctl("restart")>> \o planned

\* The commands cli_configure issues when the planned nessus_config calls
\* exit with the given statuses: the value of nessus_config is dropped, so
\* all of them, and then the restart.
CliConfigureRun(planned, status) ==
    planned \o <<Supervisorctl("restart")>>

\* What nessus_config prints for a command that exits with status st.
SettingLog(c, st) ==
    << <<"Setting {0} to {1}.", c[Len(c) - 1], c[Len(c)]>> >>
    \o (IF st # 0
          THEN << <<"Failed to set {0}. Error code: {1}", c[Len(c) - 1], ToString(st)>> >>
          ELSE <<>>)

RECURSIVE SettingsLog(_, _)
\* The messages of all nessus_config calls of cli_configure, in order.
SettingsLog(planned, status) ==
    IF planned = <<>> THEN <<>>
    ELSE SettingLog(Head(planned), Head(status))
         \o SettingsLog(Tail(planned), Tail(status))

\* cli_configure: every setting command, then the restart of nessusd.  The
\* exit statuses are only logged and the function returns True, so main
\* never takes its sys.exit(3) here.
CliConfigure ==
    /\ pc = "cli_configure"
    /\ LET planned == SettingCommands(AUTO_UPDATE, LINKING_KEY) IN
       \E status \in [DOMAIN planned -> Statuses], restarted \in Statuses :
         /\ cmds' = cmds \o CliConfigureRun(planned, status)
         /\ Say(SettingsLog(planned, status)
                \o (IF restarted # 0 THEN << <<"Failed to restart nessusd">> >> ELSE <<>>))
    /\ pc' = "handle_activation"
    /\ UNCHANGED <<cfg, global_db, waitVars, userVars, linkVars, exitCode>>

----------------------------------------------------------------------------
\* __main__ after cli_configure, activate, configure_managed_scanner

\* Variant that looks at the linking key before the activation code.
Branch_LinkingKeyFirst(ac, lk) ==
    IF ~Truthy(ac) /\ ~Truthy(lk) THEN "wizard"
    ELSE IF Truthy(lk) THEN "link"
    ELSE "activate"

\* The branch __main__ takes after cli_configure: the three `if`s are tried
\* in the order of the source and each of them ends in sys.exit.
Branch(ac, lk) ==
    IF ~Truthy(ac) /\ ~Truthy(lk) THEN "wizard"
    ELSE IF Truthy(ac) THEN "activate"
    ELSE "link"

\* Neither an activation code nor a linking key: sys.exit(0).
WelcomeWizard ==
    /\ pc = "handle_activation"
    /\ Branch(ACTIVATION_CODE, LINKING_KEY) = "wizard"
    /\ Say(<< <<"Activation code or Linking key was not provided. Will use the welcome wizard.">> >>)
    /\ Exit(0)
    /\ UNCHANGED <<cfg, global_db, waitVars, userVars, cmds, linkVars>>

\* The commands of activate(code) when `nessuscli fetch --register` exits
\* with the given status.
ActivateCommands(code, registerStatus) ==
    <<Supervisorctl("stop"), <<"nessuscli", "fetch", "--register", code>>>>
    \o (IF registerStatus # 0 THEN <<>> ELSE <<Supervisorctl("start")>>)

\* The note activate prints about the update mode.
UpdateNote(auto_update) ==
    CASE auto_update = "all" -> << <<"Auto updates are on.">> >>
      [] auto_update = "plugins" -> << <<"Core updates are off but plugin updates are turned on.">> >>
      [] auto_update = "no" -> << <<"Updates are turned off.">> >>
      [] OTHER -> <<>>

\* What __main__ and activate(code) print for the given exit statuses of
\* the register and the start command.
ActivateLog(code, auto_update, registerStatus, startStatus) ==
    << <<"Attempting to configure Nessus with provided activation code.">>,
       <<"Activating with code: {0}", code>> >>
    \o (IF registerStatus # 0
          THEN << <<"Failed to activate Nessus using code {0}.", code>>,
                  <<"Failed to activate using code: {0}", code>> >>
          ELSE << <<"Activated scanner successfully.">> >>
               \o UpdateNote(auto_update)
               \o (IF startStatus # 0
                     THEN << <<"Failed to start Nessus after activation">>,
                             <<"Failed to activate using code: {0}", code>> >>
                     ELSE <<>>))

\* if ACTIVATION_CODE: activate(ACTIVATION_CODE); sys.exit(0) whatever it
\* returned.
Activate ==
    /\ pc = "handle_activation"
    /\ Branch(ACTIVATION_CODE, LINKING_KEY) = "activate"
    /\ \E registerStatus \in Statuses, startStatus \in Statuses :
         /\ cmds' = cmds \o ActivateCommands(ACTIVATION_CODE, registerStatus)
         /\ Say(ActivateLog(ACTIVATION_CODE, AUTO_UPDATE, registerStatus, startStatus))
    /\ Exit(0)
    /\ UNCHANGED <<cfg, global_db, waitVars, userVars, linkVars>>

\* What one run of `nessuscli managed link` can do under check_output.
LinkOutcomes ==
    { "linked",        \* status 0, output without the marker
      "empty",         \* status 0, no output
      "Failed",        \* status 0, output contains "Failed"
      "nonzero",       \* non-zero status: CalledProcessError
      "oserror" }      \* the command cannot be run: OSError

\* Variant without the search for "Failed" in the output.
ManagedLinkResult_NoMarker(o) ==
    CASE o = "nonzero" -> "False"
      [] o = "oserror" -> "raised"
      [] o = "empty" -> "False"
      [] OTHER -> "True"

\* The value of managed_link for an outcome: "True" for any true value,
\* "False", or "raised" when an exception leaves the function.
ManagedLinkResult(o) ==
    CASE o = "nonzero" -> "False"
      [] o = "oserror" -> "raised"
      [] o = "empty" -> "False"
      [] o = "Failed" -> "False"
      [] OTHER -> "True"

\* What managed_link(remote_port) prints for an outcome.
ManagedLinkLog(o, remote_port) ==
    CASE o = "nonzero" ->
           << <<"Scanner failed to link to controller at {0}:{1}. Reason: {2}",
                MANAGER_HOST, remote_port, "CalledProcessError">> >>
      [] o = "Failed" ->
           << <<"Scanner failed to link to controller at {0}:{1}. Reason: {2}",
                MANAGER_HOST, remote_port, "Failed">> >>
      [] o = "linked" ->
           << <<"Scanner successfully linked to controller {0}:{1}",
                MANAGER_HOST, remote_port>> >>
      [] OTHER -> <<>>

\* The command line of managed_link(remote_port) as built by the
\* check_output branch (the interpreter named by the script is python3):
\* without a proxy the port is MANAGER_PORT, not the parameter.
LinkCommand(remote_port, proxy) ==
    IF Truthy(proxy)
      THEN <<"nessuscli", "managed", "link", "--port", remote_port, "--proxy-host", proxy>>
      ELSE <<"nessuscli", "managed", "link", "--port", MANAGER_PORT>>

IsLink(c) == c[1] = "nessuscli" /\ c[2] = "managed" /\ c[3] = "link"

\* Number of link commands issued so far.
LinkAttempts == Cardinality({k \in DOMAIN cmds : IsLink(cmds[k])})

\* Variant that enters the retry loop whatever RETRY_ON_FAIL is.
RetryWanted_Always(l, retry) == l = "False"

\* `if not linked: if RETRY_ON_FAIL:`
RetryWanted(l, retry) == l = "False" /\ Truthy(retry)

\* configure_managed_scanner up to its first decision: the managed=managed
\* setting, the first managed_link(MANAGER_PORT), and the return when the
\* retry loop is not entered; main exits 0 on True and 3 on False.
ConfigureManagedScanner ==
    /\ pc = "handle_activation"
    /\ Branch(ACTIVATION_CODE, LINKING_KEY) = "link"
    /\ \E o \in LinkOutcomes :
         LET l == ManagedLinkResult(o)
             said == << <<"Attempting to configure as managed scanner">>,
                        <<"Linking scanner to configured controller.">> >>
                     \o ManagedLinkLog(o, MANAGER_PORT)
         IN
         /\ cmds' = cmds \o <<FixSet("managed", "managed", TRUE),
                               LinkCommand(MANAGER_PORT, PROXY)>>
         /\ linked' = l
         /\ outcome' = o
         /\ IF l = "raised"
              THEN /\ configured' = "raised"
                   /\ Say(said)
                   /\ Exit(1)
              ELSE IF RetryWanted(l, RETRY_ON_FAIL)
              THEN /\ pc' = "retry"
                   /\ Say(said)
                   /\ UNCHANGED <<configured, exitCode>>
              ELSE /\ configured' = l
                   /\ Say(said \o
                          (IF l = "True"
                             THEN << <<"Successfully configured scanner as Managed.">> >>
                             ELSE << <<"Managed scanner failed to link to controller.">>,
                                     <<"Failed to configure scanner as Managed.">> >>))
                   /\ Exit(IF l = "True" THEN 0 ELSE 3)
    /\ UNCHANGED <<cfg, global_db, waitVars, userVars, sleeps>>

\* First pass of `while not linked`: the message, time.sleep, and then
\* managed_link(remote_port).  remote_port is neither a local of
\* configure_managed_scanner nor a module global, so evaluating the argument
\* raises NameError before managed_link is called; nothing catches it.
RetryLink ==
    /\ pc = "retry"
    /\ sleeps' = sleeps + 1
    /\ Say(<< <<"Failed to link to controller. Trying again in {0} secs.",
                ToString(RETRY_ON_FAIL_SLEEP)>> >>)
    /\ configured' = "raised"
    /\ Exit(1)
    /\ UNCHANGED <<cfg, global_db, waitVars, userVars, cmds, linked, outcome>>

----------------------------------------------------------------------------

Next ==
    \/ GlobalDbWritten
    \/ WaitIteration
    \/ WaitTimedOut
    \/ AddUser
    \/ Expect
    \/ Sendline
    \/ ChildExits
    \/ CliConfigure
    \/ WelcomeWizard
    \/ Activate
    \/ ConfigureManagedScanner
    \/ RetryLink

Spec == Init /\ [][Next]_vars

\* The steps of the script itself: every call it makes returns or raises,
\* so the interpreter always takes its next step.
Script ==
    \/ WaitIteration
    \/ WaitTimedOut
    \/ AddUser
    \/ Expect
    \/ Sendline
    \/ CliConfigure
    \/ WelcomeWizard
    \/ Activate
    \/ ConfigureManagedScanner
    \/ RetryLink

FairSpec == Spec /\ WF_vars(Script)

----------------------------------------------------------------------------
\* Properties

\* Exactly one of USERNAME and PASSWORD is in the environment.
ExactlyOneCredential == (USERNAME = None) # (PASSWORD = None)

\* Neither USERNAME nor PASSWORD is in the environment.
NoCredentials == USERNAME = None /\ PASSWORD = None

\* The last child.expect call raised TIMEOUT or EOF.
Mismatch ==
    /\ child # "none"
    /\ out # "<nothing read>"
    /\ ExpectIndex(Expected(step), out) = 0

\* C1: with exactly one of USERNAME and PASSWORD set, whatever
\* ACTIVATION_CODE and LINKING_KEY are, no adduser process is spawned, no
\* command is issued, and once add_user has returned it has returned
\* failure and the run has exited with code 3.
C1_MismatchedCredentialsAbort ==
    ExactlyOneCredential =>
        /\ child = "none"
        /\ cmds = <<>>
        /\ user_added # "unset" =>
               (user_added = "False" /\ pc = "exited" /\ exitCode = 3)

C3_SendOnlyAfterPrompt ==
    /\ Len(sent) <= Len(matched)
    /\ Len(matched) <= Len(sent) + 1
    /\ \A k \in DOMAIN sent :
          /\ sent[k] = Response(k)
          /\ \E j \in DOMAIN Expected(k) : matched[k] = Expected(k)[j]

C3_Witness ==
    /\ Len(sent) = 6
    /\ Len(matched) = 7
    /\ user_added = "True"

\* C4: when the first expect call matched the license-limit message,
\* add_user has returned success, nothing at all was sent to the child and
\* no further prompt was waited for.
C4_LicenseLimitNoResponse ==
    (Len(matched) >= 1 /\ matched[1] = LicenseLimit) =>
        /\ user_added = "True"
        /\ sent = <<>>
        /\ Len(matched) = 1

C4_Witness ==
    /\ matched = <<LicenseLimit>>
    /\ user_added = "True"
    /\ pc = "exited"

\* C5: when the second expect call matched 'already exists', add_user has
\* returned success, only the username was sent, and the child process is
\* no longer running.
C5_AlreadyExistsTerminates ==
    (Len(matched) >= 2 /\ matched[2] = AlreadyExists) =>
        /\ user_added = "True"
        /\ sent = <<USERNAME>>
        /\ child # "running"

\* C6: when an expect call of the dialogue did not match (other output,
\* timeout, end of file), add_user has returned failure and the run has
\* exited with code 3 without issuing any command.
C6_MismatchExitsFatal ==
    Mismatch =>
        /\ user_added = "False"
        /\ pc = "exited"
        /\ exitCode = 3
        /\ cmds = <<>>

\* C7: the readiness wait sleeps one second after every failed check and
\* makes at most GLOBAL_DB_TIMEOUT checks; when it gives up it has made
\* exactly GLOBAL_DB_TIMEOUT checks and slept GLOBAL_DB_TIMEOUT seconds, and
\* the run has exited with code 3 with no adduser process and no command;
\* it reports readiness only for a global.db of non-zero size.
C7_ReadinessTimeout ==
    /\ slept = i
    /\ i <= GLOBAL_DB_TIMEOUT
    /\ checks \in {slept, slept + 1}
    /\ gdb_created = "unset" => checks = slept
    /\ gdb_created = "True" => (global_db = "nonempty" /\ checks = slept + 1)
    /\ gdb_created = "False" =>
          /\ checks = GLOBAL_DB_TIMEOUT
          /\ slept = GLOBAL_DB_TIMEOUT
          /\ pc = "exited"
          /\ exitCode = 3
          /\ child = "none"
          /\ cmds = <<>>

C7_Witness ==
    /\ gdb_created = "False"
    /\ GLOBAL_DB_TIMEOUT = MaxTimeout
    /\ global_db = "empty"
    /\ slept = MaxTimeout

\* C8: with retry enabled, once configure_managed_scanner has ended without
\* an exception from the link command itself, it has reported success after
\* one more link attempt than sleeps (k failures, k sleeps, k+1 attempts).
C8_RetryUntilSuccess ==
    (Truthy(RETRY_ON_FAIL) /\ configured # "unset" /\ linked # "raised") =>
        /\ configured = "True"
        /\ LinkAttempts = sleeps + 1

\* C9: with retry disabled, a link attempt that failed is the only one:
\* configure_managed_scanner has returned failure after one link command
\* and no sleep, and the run has exited with code 3.
C9_NoRetrySingleAttempt ==
    (~Truthy(RETRY_ON_FAIL) /\ linked = "False") =>
        /\ configured = "False"
        /\ LinkAttempts = 1
        /\ sleeps = 0
        /\ pc = "exited"
        /\ exitCode = 3

C9_Witness ==
    /\ RETRY_ON_FAIL = FalseDefault
    /\ linked = "False"
    /\ configured = "False"
    /\ exitCode = 3

\* C10: a run that has ended has exit code 0 or 3: 3 when the readiness
\* wait timed out, the dialogue failed or the link finally failed, 0 when
\* the scanner was configured or left to the welcome wizard.
C10_ExitCodeZeroOrThree ==
    pc = "exited" =>
        /\ exitCode \in {0, 3}
        /\ (gdb_created = "False" \/ user_added \in {"False", "raised"}
              \/ configured \in {"False", "raised"}) => exitCode = 3
        /\ (configured = "True"
              \/ (user_added = "True" /\ ~Truthy(ACTIVATION_CODE) /\ ~Truthy(LINKING_KEY)))
             => exitCode = 0


\* The managed=managed setting of configure_managed_scanner.
ManagedSetting == FixSet("managed", "managed", TRUE)

\* A nessus_config command of cli_configure.
IsSetting(c) == c[1] = "nessuscli" /\ c[2] = "fix" /\ c # ManagedSetting

IsRestart(c) == c = Supervisorctl("restart")

\* A command of activate.
IsActivationCommand(c) ==
    \/ c = Supervisorctl("stop")
    \/ c = Supervisorctl("start")
    \/ (c[1] = "nessuscli" /\ c[2] = "fetch")

\* A command of configure_managed_scanner.
IsLinkingCommand(c) == c = ManagedSetting \/ IsLink(c)

\* The run went through cli_configure and has ended.
RanToBranch == pc = "exited" /\ \E k \in DOMAIN cmds : IsRestart(cmds[k])

\* C11: the steps come in the order readiness wait, account dialogue,
\* settings, activation or linking: an adduser process and a result of
\* add_user exist only after the readiness marker was seen, commands are
\* issued only after add_user returned success, and every activation or
\* linking command comes after the restart that ends the settings step,
\* which itself comes after every setting command.
C11_StepsInOrder ==
    /\ child # "none" => gdb_created = "True"
    /\ user_added # "unset" => gdb_created = "True"
    /\ cmds # <<>> => user_added = "True"
    /\ \A k \in DOMAIN cmds :
         (IsActivationCommand(cmds[k]) \/ IsLinkingCommand(cmds[k])) =>
             \E r \in 1..(k - 1) :
                 /\ IsRestart(cmds[r])
                 /\ \A j \in DOMAIN cmds : IsSetting(cmds[j]) => j < r

C11_Witness ==
    /\ pc = "exited"
    /\ child # "none"
    /\ LinkAttempts = 1
    /\ \E k \in DOMAIN cmds : IsSetting(cmds[k])

\* C12: with a non-empty ACTIVATION_CODE the run activates and never issues
\* a command of the linking procedure, whatever LINKING_KEY is; with only a
\* non-empty LINKING_KEY it links and never issues an activation command;
\* with neither it issues none of them and exits 0.
C12_ActivationBeforeLinking ==
    /\ Truthy(ACTIVATION_CODE) =>
         /\ linked = "unset"
         /\ \A k \in DOMAIN cmds : ~IsLinkingCommand(cmds[k])
         /\ RanToBranch =>
              /\ \E k \in DOMAIN cmds :
                    cmds[k] = <<"nessuscli", "fetch", "--register", ACTIVATION_CODE>>
              /\ exitCode = 0
    /\ ~Truthy(ACTIVATION_CODE) =>
         \A k \in DOMAIN cmds : ~IsActivationCommand(cmds[k])
    /\ (~Truthy(ACTIVATION_CODE) /\ Truthy(LINKING_KEY) /\ RanToBranch) =>
         LinkAttempts >= 1
    /\ (~Truthy(ACTIVATION_CODE) /\ ~Truthy(LINKING_KEY)) =>
         /\ \A k \in DOMAIN cmds : ~IsLinkingCommand(cmds[k])
         /\ RanToBranch => exitCode = 0

C12_Witness ==
    /\ Truthy(ACTIVATION_CODE)
    /\ Truthy(LINKING_KEY)
    /\ RanToBranch
    /\ \E k \in DOMAIN cmds : cmds[k] = Supervisorctl("stop")

\* C13: every link attempt of the linking procedure, the first call and
\* the call of every pass of the retry loop, has issued a link command
\* whose --port is the port the procedure was given (MANAGER_PORT).
C13_EveryAttemptUsesCallerPort ==
    /\ \A k \in DOMAIN cmds : IsLink(cmds[k]) => cmds[k][5] = MANAGER_PORT
    /\ pc = "exited" =>
         Cardinality({k \in DOMAIN cmds :
                         IsLink(cmds[k]) /\ cmds[k][5] = MANAGER_PORT})
           = (IF linked = "unset" THEN 0 ELSE 1) + sleeps

FullScript == <<USERNAME, PASSWORD, PASSWORD, "y", "", "y\\n">>

\* The login prompt and then the password prompt were matched.
PasswordPath ==
    /\ Len(matched) >= 2
    /\ matched[1] = LoginPrompt
    /\ matched[2] = PasswordPrompt

\* C15: on the path through the login and the password prompt, the lines
\* sent are at every moment the first ones of username, password, password,
\* 'y', empty line, 'y', each sent after its own prompt, and add_user has
\* returned success only when all six were sent and 'User added' was
\* matched after them.
C15_SixResponsesThenUserAdded ==
    PasswordPath =>
        /\ Len(sent) <= 6
        /\ sent = SubSeq(FullScript, 1, Len(sent))
        /\ Len(matched) \in {Len(sent), Len(sent) + 1}
        /\ user_added \in {"unset", "True", "raised"}
        /\ user_added = "True" =>
             /\ sent = FullScript
             /\ matched = <<LoginPrompt, PasswordPrompt, PasswordAgainPrompt,
                            AdminPrompt, RulesPrompt, ConfirmPrompt, UserAdded>>

C15_Witness ==
    /\ PasswordPath
    /\ user_added = "True"
    /\ sent = FullScript
    /\ matched[7] = UserAdded

\* The names of the settings cli_configure has to apply.
SelectedSettings ==
    <<"ms_name">>
    \o (CASE AUTO_UPDATE = "all" -> <<"auto_update">>
          [] AUTO_UPDATE = "plugins" -> <<"auto_update_ui", "auto_update">>
          [] AUTO_UPDATE = "no" -> <<"auto_update">>
          [] OTHER -> <<>>)
    \o (IF Truthy(LINKING_KEY) THEN <<"disable_core_updates">> ELSE <<>>)

\* C16: once cli_configure has run, whatever the exit statuses were, the
\* commands issued begin with one `fix --set` per selected setting, in
\* order, followed by the restart of nessusd; there is exactly one restart
\* and no setting command after it; add_user had returned success and the
\* run is at or past the activation-or-linking branch.
C16_SettingsBestEffort ==
    cmds # <<>> =>
        LET n == Len(SelectedSettings) IN
        /\ Len(cmds) >= n + 1
        /\ \A k \in 1..n :
              /\ IsSetting(cmds[k])
              /\ cmds[k][Len(cmds[k]) - 1] = SelectedSettings[k]
        /\ IsRestart(cmds[n + 1])
        /\ Cardinality({k \in DOMAIN cmds : IsRestart(cmds[k])}) = 1
        /\ \A k \in DOMAIN cmds : k > n + 1 => ~IsSetting(cmds[k])
        /\ user_added = "True"
        /\ pc \in {"handle_activation", "retry", "exited"}

\* Every selected setting command and the restart failed, and the run is
\* at the branch.
C16_Witness ==
    /\ pc = "handle_activation"
    /\ AUTO_UPDATE = "plugins"
    /\ Truthy(LINKING_KEY)
    /\ \A k \in DOMAIN SelectedSettings :
          \E m \in DOMAIN log :
              /\ log[m][1] = "Failed to set {0}. Error code: {1}"
              /\ log[m][2] = SelectedSettings[k]
    /\ \E m \in DOMAIN log : log[m] = <<"Failed to restart nessusd">>

\* C17: on every path on which add_user spawned the child, the child is no
\* longer running once add_user has returned or has been left by an
\* exception.
C17_ChildTerminatedOnEveryPath ==
    (child # "none" /\ user_added \in {"True", "raised"}) => child = "exited"

\* The activation commands issued so far, in order.
RECURSIVE ActivationCommandsOf(_)
ActivationCommandsOf(cs) ==
    IF cs = <<>> THEN <<>>
    ELSE (IF IsActivationCommand(Head(cs)) THEN <<Head(cs)>> ELSE <<>>)
         \o ActivationCommandsOf(Tail(cs))

\* C18: the activation commands are issued in the order stop, register,
\* start, and a run that stopped nessusd for activation has issued the start
\* by the time it exits, whether or not the registration succeeded.
C18_StopRegisterStart ==
    LET acts == ActivationCommandsOf(cmds)
        order == <<Supervisorctl("stop"),
                   <<"nessuscli", "fetch", "--register", ACTIVATION_CODE>>,
                   Supervisorctl("start")>>
    IN  /\ Len(acts) <= 3
        /\ acts = SubSeq(order, 1, Len(acts))
        /\ (pc = "exited" /\ acts # <<>>) => acts = order

\* C19: with retry enabled the linking procedure never gives up: while the
\* last link attempt has failed, the procedure has not ended (neither with
\* failure nor otherwise), the run has not exited, and every sleep so far
\* was followed by a further attempt or is about to be.
C19_RetryKeepsAttempting ==
    (Truthy(RETRY_ON_FAIL) /\ linked = "False") =>
        /\ configured = "unset"
        /\ pc # "exited"
        /\ LinkAttempts \in {sleeps, sleeps + 1}

\* The run reaches a process exit.
Termination == <>(pc = "exited")

\* C20: the log of the run equals the log of the run that differs from it
\* only in the value of PASSWORD.
C20_LogIndependentOfPassword == log = twinLog

====
